---- MODULE Spec2Model ----
(***************************************************************************)
(* Sponge layer of the Poseidon hasher (src/poseidon.rs): the engine       *)
(* Poseidon<F, T, RATE> with its operations new, update, squeeze, reset,   *)
(* squeeze_and_reset, and the digest adapter (Update::update with bytes,   *)
(* FixedOutput::finalize_into).                                            *)
(*                                                                         *)
(* The field F is the ring of integers modulo P.  The permutation and the  *)
(* state container (crate::Spec, crate::State) live outside poseidon.rs    *)
(* and are modelled from their documented contract.                        *)
(***************************************************************************)
EXTENDS Integers, Sequences, FiniteSets, TLC

\* ------------------------------------------------------------------------
\* Parameters
\* ------------------------------------------------------------------------

\* Width and rate of the instantiation test_padding!(3, 2).
T == 3
RATE == 2

\* Modulus of the model field F (above 255, so that every byte has its own
\* element).
P == 257

\* Declared output size of the adapter, typenum::U32.
OutputSize == 32

\* Declared block size of the adapter, typenum::U64.
BlockSize == 64

\* Most input elements absorbed, and most squeezes, between two resets.
MaxInputs == 4
MaxSqueezes == 2

\* Field elements and bytes the callers pass.
Elems == {0, 1}
Bytes == {1, 255}

\* Round counts (r_f, r_p) the engine is constructed with.
RoundCounts == {<<2, 1>>}

\* Lengths of the canonical representation F::Repr of the fields the
\* adapter is instantiated with.
ReprLens == {32, 48}

\* Marker of a squeeze in the history.
SQ == P
\* The operation returns no element.
NoOut == P

\* ------------------------------------------------------------------------
\* Sequences
\* ------------------------------------------------------------------------

\* All sequences over S of length at most n.
SeqsUpTo(S, n) == UNION {[1..k -> S] : k \in 0..n}

\* slice.chunks(n): consecutive chunks of n elements, the last one shorter
\* when the length is not a multiple of n; no chunk for the empty slice.
RECURSIVE Chunks(_, _)
Chunks(s, n) ==
    IF Len(s) = 0 THEN <<>>
    ELSE IF Len(s) <= n THEN <<s>>
    ELSE <<SubSeq(s, 1, n)>> \o Chunks(SubSeq(s, n + 1, Len(s)), n)

\* The first n values of f as a tuple.
RECURSIVE Vec(_, _)
Vec(f, n) == IF n = 0 THEN <<>> ELSE Append(Vec(f, n - 1), f[n])

\* vec![zero; n]
Zeros(n) == Vec([i \in 1..n |-> 0], n)

\* result_bytes.reverse()
Reverse(s) == Vec([i \in 1..Len(s) |-> s[Len(s) + 1 - i]], Len(s))

\* ------------------------------------------------------------------------
\* Field, state vector and permutation (crate::State, crate::Spec)
\* ------------------------------------------------------------------------

FAdd(a, b) == (a + b) % P
FMul(a, b) == (a * b) % P

\* State::default(): T zero elements.
DefaultState == Zeros(T)

\* State::result(): the designated output slot.
Result(st) == st[1]

\* State::add_constants(c): element-wise addition of a T-sized array.
AddConstants(st, c) == Vec([i \in 1..T |-> FAdd(st[i], c[i])], T)

\* Spec::new(r_f, r_p)
SpecNew(r_f, r_p) == [r_f |-> r_f, r_p |-> r_p]

\* Round constant of cell i in round r.
RoundConstant(r, i) == (7 * r * r + 3 * i * r + 11 * i + 5) % P

\* S-box x^5.
Square(x) == FMul(x, x)
SBox(x) == FMul(Square(Square(x)), x)

RECURSIVE SumSeq(_, _)
SumSeq(s, n) == IF n = 0 THEN 0 ELSE FAdd(s[n], SumSeq(s, n - 1))

\* Linear layer: the matrix diag(1..T) + all-ones.
MixWith(st, sum) == Vec([i \in 1..T |-> FAdd(FMul(i, st[i]), sum)], T)
Mix(st) == MixWith(st, SumSeq(st, T))

FullRound(st, r) ==
    Mix(Vec([i \in 1..T |-> SBox(FAdd(st[i], RoundConstant(r, i)))], T))

PartialRound(st, r) ==
    Mix(Vec([i \in 1..T |-> IF i = 1
                             THEN SBox(FAdd(st[i], RoundConstant(r, i)))
                             ELSE FAdd(st[i], RoundConstant(r, i))], T))

\* Rounds r..last of the permutation on the T cells of st: r_f / 2 full
\* rounds, r_p partial rounds, r_f / 2 full rounds.
RECURSIVE Rounds(_, _, _)
Rounds(sp, st, r) ==
    IF Len(st) # T \/ r > sp.r_f + sp.r_p THEN st
    ELSE IF r <= sp.r_f \div 2 \/ r > sp.r_f \div 2 + sp.r_p
         THEN Rounds(sp, FullRound(st, r), r + 1)
         ELSE Rounds(sp, PartialRound(st, r), r + 1)

\* Spec::permute(&mut state)
Permute(sp, st) == Rounds(sp, st, 1)

\* ------------------------------------------------------------------------
\* Poseidon<F, T, RATE>
\* ------------------------------------------------------------------------

\* The additions, were they to start at the first cell of the state vector
\* (no skip(1)).
AddChunk_NoSkip(st, chunk) ==
    Vec([i \in 1..T |-> IF i <= Len(chunk)
                         THEN FAdd(st[i], chunk[i])
                         ELSE st[i]], T)

\* for (input_element, state) in chunk.iter().zip(state.0.iter_mut().skip(1))
\*     { state.add_assign(input_element) }
AddChunk(st, chunk) ==
    Vec([i \in 1..T |-> IF i >= 2 /\ i - 1 <= Len(chunk)
                         THEN FAdd(st[i], chunk[i - 1])
                         ELSE st[i]], T)

\* An engine value: the fields state and absorbing, and the number of
\* permute calls made on it by the running operation.
Engine(st, ab, n) == [state |-> st, absorbing |-> ab, perms |-> n]

\* The loop of update, were it to permute on a short chunk as well.
RECURSIVE UpdateLoop_PermuteShort(_, _, _, _)
UpdateLoop_PermuteShort(sp, e, chunks, k) ==
    IF k > Len(chunks) THEN e
    ELSE UpdateLoop_PermuteShort(
             sp,
             Engine(Permute(sp, AddChunk(e.state, chunks[k])), <<>>,
                    e.perms + 1),
             chunks, k + 1)

\* The loop of update, were it to store a chunk of RATE elements as well
\* (chunk.len() <= RATE).
RECURSIVE UpdateLoop_KeepFull(_, _, _, _)
UpdateLoop_KeepFull(sp, e, chunks, k) ==
    IF k > Len(chunks) THEN e
    ELSE UpdateLoop_KeepFull(sp, Engine(e.state, chunks[k], e.perms),
                             chunks, k + 1)

\* The loop of update, were it to leave the absorption line as it is after
\* permuting.
RECURSIVE UpdateLoop_NoClear(_, _, _, _)
UpdateLoop_NoClear(sp, e, chunks, k) ==
    IF k > Len(chunks) THEN e
    ELSE IF Len(chunks[k]) < RATE
         THEN UpdateLoop_NoClear(sp, Engine(e.state, chunks[k], e.perms),
                                 chunks, k + 1)
         ELSE UpdateLoop_NoClear(
                  sp,
                  Engine(Permute(sp, AddChunk(e.state, chunks[k])),
                         e.absorbing, e.perms + 1),
                  chunks, k + 1)

\* Body of the loop of update, over the chunks from index k on.
RECURSIVE UpdateLoop(_, _, _, _)
UpdateLoop(sp, e, chunks, k) ==
    IF k > Len(chunks) THEN e
    ELSE IF Len(chunks[k]) < RATE
         THEN UpdateLoop(sp, Engine(e.state, chunks[k], e.perms), chunks, k + 1)
         ELSE UpdateLoop(sp,
                         Engine(Permute(sp, AddChunk(e.state, chunks[k])),
                                <<>>, e.perms + 1),
                         chunks, k + 1)

\* update, were it to chunk the new elements alone and forget the
\* absorption line.
UpdateOp_NoBuffer(sp, e, elements) ==
    UpdateLoop(sp, Engine(e.state, e.absorbing, 0), Chunks(elements, RATE), 1)

\* update, were it to take the new elements alone for the absorption line
\* when they make no full chunk.
UpdateOp_DropOnShort(sp, e, elements) ==
    IF Len(elements) < RATE
    THEN Engine(e.state, elements, 0)
    ELSE UpdateLoop(sp, Engine(e.state, e.absorbing, 0),
                    Chunks(e.absorbing \o elements, RATE), 1)

\* Poseidon::update(&mut self, elements)
UpdateOp(sp, e, elements) ==
    UpdateLoop(sp, Engine(e.state, e.absorbing, 0),
               Chunks(e.absorbing \o elements, RATE), 1)

\* What squeeze leaves and returns, st being the state vector after its
\* last step and n the permute calls it made: self.absorbing.clear();
\* self.state.result()
Squeezed(st, n) ==
    [state |-> st, absorbing |-> <<>>, perms |-> n, result |-> Result(st)]

\* squeeze, were it to put the finishing sign in front of the waiting
\* elements.
SqueezeOp_MarkerFirst(sp, e) ==
    Squeezed(Permute(sp, AddChunk(e.state, <<1>> \o e.absorbing)), 1)

\* squeeze, were it to leave out the finishing sign.
SqueezeOp_NoMarker(sp, e) ==
    Squeezed(Permute(sp, AddChunk(e.state, e.absorbing)), 1)

\* squeeze, were it to skip the permutation on an empty absorption line.
SqueezeOp_NoFinalPermute(sp, e) ==
    IF e.absorbing = <<>>
    THEN Squeezed(AddChunk(e.state, Append(e.absorbing, 1)), 0)
    ELSE Squeezed(Permute(sp, AddChunk(e.state, Append(e.absorbing, 1))), 1)

\* squeeze, were it to clear the state after reading the result.
SqueezeOp_Resetting(sp, e) ==
    [state |-> DefaultState, absorbing |-> <<>>, perms |-> 1,
     result |-> Result(Permute(sp, AddChunk(e.state, Append(e.absorbing, 1))))]

\* Poseidon::squeeze(&mut self), past the debug assertion.
SqueezeOp(sp, e) ==
    Squeezed(Permute(sp, AddChunk(e.state, Append(e.absorbing, 1))), 1)

\* reset, were it to keep the absorption line.
ResetOp_KeepBuffer(e) == Engine(DefaultState, e.absorbing, 0)

\* reset, were it to clear the absorption line and keep the state vector.
ResetOp_KeepState(e) == Engine(e.state, <<>>, 0)

\* Poseidon::reset(&mut self)
ResetOp(e) == Engine(DefaultState, <<>>, 0)

\* The engine e, with the result and the permute calls of the squeeze sq.
Returning(e, sq) ==
    [state |-> e.state, absorbing |-> e.absorbing,
     perms |-> sq.perms, result |-> sq.result]

\* squeeze_and_reset, were it to reset before it squeezes.
SqueezeAndResetOp_ResetFirst(sp, e) ==
    Returning(ResetOp(e), SqueezeOp(sp, ResetOp(e)))

\* squeeze_and_reset, were it to squeeze only.
SqueezeAndResetOp_NoReset(sp, e) == SqueezeOp(sp, e)

\* Poseidon::squeeze_and_reset(&mut self)
SqueezeThenReset(sq) == Returning(ResetOp(sq), sq)
SqueezeAndResetOp(sp, e) == SqueezeThenReset(SqueezeOp(sp, e))

\* ------------------------------------------------------------------------
\* Digest adapter
\* ------------------------------------------------------------------------

\* F::from, were it to keep the low seven bits only.
FromU64_Truncated(v) == v % 128

\* F::from(v as u64)
FromU64(v) == v % P

\* data.iter().map(|v| F::from(*v as u64)).collect()
DataInFe(data) == Vec([i \in 1..Len(data) |-> FromU64(data[i])], Len(data))

\* F::to_repr(): little-endian bytes, n of them.
RECURSIVE ToRepr(_, _)
ToRepr(x, n) == IF n = 0 THEN <<>> ELSE <<x % 256>> \o ToRepr(x \div 256, n - 1)

\* The number of bits of n.
RECURSIVE NumBits(_)
NumBits(n) == IF n = 0 THEN 0 ELSE 1 + NumBits(n \div 2)

\* F::CAPACITY: the number of bits every value of which is an element of
\* the field, one less than the bits of the modulus.
CAPACITY == NumBits(P) - 1

\* <Poseidon as BlockSizeUser>::block_size()
block_size == CAPACITY * RATE

\* ------------------------------------------------------------------------
\* State
\* ------------------------------------------------------------------------

VARIABLES
    state,      \* self.state
    absorbing,  \* self.absorbing
    spec,       \* self.spec
    reprLen,    \* size of F::Repr
    out,        \* element returned by the operation that ran last, if any
    outBuf,     \* the output buffer of finalize_into
    panicked,   \* a panic was raised
    lastOp,     \* the operation that ran last
    arg,        \* argument of the last update call since the last reset
    hist,       \* elements absorbed and squeezes made since the last reset
    permsU,     \* permute calls made by update since the last reset
    permsS,     \* permute calls made by squeeze since the last reset
    epochs      \* resets made on a used engine: 0, 1, or 2 for two and more

vars == <<state, absorbing, spec, reprLen, out, outBuf, panicked, lastOp, arg,
          hist, permsU, permsS, epochs>>

self == Engine(state, absorbing, 0)

\* Input elements in the history.
Inputs(h) == SelectSeq(h, LAMBDA x : x # SQ)
\* Squeezes in the history.
NumSqueezes(h) == Len(SelectSeq(h, LAMBDA x : x = SQ))

Live == ~panicked /\ lastOp # "finalize"

\* One more reset of a used engine.
NextEpoch(n) == IF n < 2 THEN n + 1 ELSE n

\* Poseidon::new(r_f, r_p)
Init ==
    /\ \E rc \in RoundCounts : spec = SpecNew(rc[1], rc[2])
    /\ reprLen \in ReprLens
    /\ state = DefaultState
    /\ absorbing = <<>>
    /\ out = NoOut
    /\ outBuf = <<>>
    /\ panicked = FALSE
    /\ lastOp = "new"
    /\ arg = <<>>
    /\ hist = <<>>
    /\ permsU = 0
    /\ permsS = 0
    /\ epochs = 0

\* The effect of update(elements) on the engine and on the history.
DoUpdate(elements) ==
    \E e \in {UpdateOp(spec, self, elements)} :
        /\ state' = e.state
        /\ absorbing' = e.absorbing
        /\ permsU' = permsU + e.perms
        /\ hist' = hist \o elements
        /\ out' = NoOut
        /\ UNCHANGED <<spec, reprLen, outBuf, panicked, permsS, epochs>>

Update ==
    /\ Live
    /\ \E elements \in SeqsUpTo(Elems, MaxInputs - Len(Inputs(hist))) :
          /\ DoUpdate(elements)
          /\ lastOp' = "update"
          /\ arg' = elements

ByteUpdate ==
    /\ Live
    /\ \E data \in SeqsUpTo(Bytes, MaxInputs - Len(Inputs(hist))) :
          /\ DoUpdate(DataInFe(data))
          /\ lastOp' = "byte_update"
          /\ arg' = data

Squeeze ==
    /\ Live
    /\ NumSqueezes(hist) < MaxSqueezes
    /\ lastOp' = "squeeze"
    /\ arg' = arg
    /\ IF Len(absorbing) < RATE
       THEN \E e \in {SqueezeOp(spec, self)} :
                /\ state' = e.state
                /\ absorbing' = e.absorbing
                /\ out' = e.result
                /\ permsS' = permsS + e.perms
                /\ hist' = Append(hist, SQ)
                /\ UNCHANGED <<spec, reprLen, outBuf, panicked, permsU, epochs>>
       ELSE /\ panicked' = TRUE
            /\ UNCHANGED <<state, absorbing, spec, reprLen, out, outBuf, hist,
                           permsU, permsS, epochs>>

Reset ==
    /\ Live
    /\ \E e \in {ResetOp(self)} :
           /\ state' = e.state
           /\ absorbing' = e.absorbing
    /\ lastOp' = "reset"
    /\ arg' = <<>>
    /\ hist' = <<>>
    /\ permsU' = 0
    /\ permsS' = 0
    /\ epochs' = IF hist = <<>> THEN epochs ELSE NextEpoch(epochs)
    /\ out' = NoOut
    /\ UNCHANGED <<spec, reprLen, outBuf, panicked>>

SqueezeAndReset ==
    /\ Live
    /\ lastOp' = "squeeze_and_reset"
    /\ arg' = <<>>
    /\ IF Len(absorbing) < RATE
       THEN \E e \in {SqueezeAndResetOp(spec, self)} :
                /\ state' = e.state
                /\ absorbing' = e.absorbing
                /\ out' = e.result
                /\ hist' = <<>>
                /\ permsU' = 0
                /\ permsS' = 0
                /\ epochs' = NextEpoch(epochs)
                /\ UNCHANGED <<spec, reprLen, outBuf, panicked>>
       ELSE /\ panicked' = TRUE
            /\ UNCHANGED <<state, absorbing, spec, reprLen, out, outBuf, hist,
                           permsU, permsS, epochs>>

\* FixedOutput::finalize_into(mut self, out)
FinalizeInto ==
    /\ Live
    /\ lastOp' = "finalize"
    /\ arg' = <<>>
    /\ IF Len(absorbing) < RATE
       THEN \E e \in {SqueezeAndResetOp(spec, self)} :
            \E result_bytes \in {Reverse(ToRepr(e.result, reprLen))} :
                /\ state' = e.state
                /\ absorbing' = e.absorbing
                /\ out' = e.result
                /\ hist' = <<>>
                /\ permsU' = 0
                /\ permsS' = 0
                /\ epochs' = NextEpoch(epochs)
                \* out.copy_from_slice(&result_bytes) panics unless the two
                \* lengths are equal
                /\ IF Len(result_bytes) = OutputSize
                   THEN outBuf' = result_bytes /\ panicked' = FALSE
                   ELSE outBuf' = outBuf /\ panicked' = TRUE
                /\ UNCHANGED <<spec, reprLen>>
       ELSE /\ panicked' = TRUE
            /\ UNCHANGED <<state, absorbing, spec, reprLen, out, outBuf, hist,
                           permsU, permsS, epochs>>

\* What Poseidon::new(r_f, r_p) constructs.
NewOp(r_f, r_p) ==
    [spec |-> SpecNew(r_f, r_p), state |-> DefaultState, absorbing |-> <<>>]

\* default(), were its hardcoded round counts one partial round short.
DefaultOp_OtherRounds ==
    [spec |-> SpecNew(8, 56), state |-> DefaultState, absorbing |-> <<>>]

\* <Poseidon as Default>::default()
DefaultOp ==
    [spec |-> SpecNew(8, 57), state |-> DefaultState, absorbing |-> <<>>]

\* The engine is constructed by default().
InitDefault ==
    /\ \E e \in {DefaultOp} :
          /\ spec = e.spec
          /\ state = e.state
          /\ absorbing = e.absorbing
    /\ reprLen = OutputSize
    /\ out = NoOut
    /\ outBuf = <<>>
    /\ panicked = FALSE
    /\ lastOp = "default"
    /\ arg = <<>>
    /\ hist = <<>>
    /\ permsU = 0
    /\ permsS = 0
    /\ epochs = 0

Next ==
    \/ Update
    \/ ByteUpdate
    \/ Squeeze
    \/ Reset
    \/ SqueezeAndReset
    \/ FinalizeInto

Spec == Init /\ [][Next]_vars

\* The operations on an engine constructed by default().
NextDefault ==
    \/ Update
    \/ Squeeze
    \/ SqueezeAndReset

SpecDefault == InitDefault /\ [][NextDefault]_vars

TypeOK ==
    /\ state \in [1..T -> 0..(P - 1)]
    /\ Len(absorbing) < RATE
    /\ out \in {NoOut} \cup 0..(P - 1)
    /\ panicked \in BOOLEAN

\* ------------------------------------------------------------------------
\* Reference computations of the tests
\* ------------------------------------------------------------------------

Fresh == Engine(DefaultState, <<>>, 0)

\* inputs.push(one); zeros up to the next multiple of RATE  (test_padding)
RefPad(inputs) ==
    IF (Len(inputs) + 1) % RATE # 0
    THEN Append(inputs, 1) \o Zeros(RATE - ((Len(inputs) + 1) % RATE))
    ELSE Append(inputs, 1)

\* extra_padding = [one, zero, ..., zero]
ExtraPadding == <<1>> \o Zeros(RATE - 1)

\* for chunk in inputs.chunks(RATE) { state.add_constants([zero] ++ chunk);
\* spec.permute(&mut state) }, from chunk k on.
RECURSIVE RefAbsorb(_, _, _, _)
RefAbsorb(sp, st, chunks, k) ==
    IF k > Len(chunks) THEN st
    ELSE RefAbsorb(sp, Permute(sp, AddConstants(st, <<0>> \o chunks[k])),
                   chunks, k + 1)

\* The reference result for inputs already padded to a multiple of RATE.
RefResult(sp, padded) ==
    Result(RefAbsorb(sp, DefaultState, Chunks(padded, RATE), 1))

\* The same reference run over a whole history, a squeeze closing the block
\* it falls in with the finishing sign and zeros: the state vector and the
\* elements still waiting after h[k..] from state st and waiting elements buf.
RECURSIVE RefSponge(_, _, _, _, _)
RefSponge(sp, h, k, st, buf) ==
    IF k > Len(h) THEN [state |-> st, absorbing |-> buf]
    ELSE IF h[k] = SQ
         THEN RefSponge(sp, h, k + 1,
                        Permute(sp, AddConstants(st, <<0>> \o RefPad(buf))),
                        <<>>)
         ELSE IF Len(buf) + 1 = RATE
              THEN RefSponge(sp, h, k + 1,
                             Permute(sp, AddConstants(st,
                                         <<0>> \o Append(buf, h[k]))),
                             <<>>)
              ELSE RefSponge(sp, h, k + 1, st, Append(buf, h[k]))

RefEngine(sp, h) == RefSponge(sp, h, 1, DefaultState, <<>>)

\* The history is some updates followed by one squeeze, the operation that
\* ran last.
FirstSqueeze == lastOp = "squeeze" /\ ~panicked /\ NumSqueezes(hist) = 1

\* ------------------------------------------------------------------------
\* Claims
\* ------------------------------------------------------------------------

\* C1: on a fresh or reset engine, update called once per piece of any
\* partition of the input leaves the state vector and the buffer that one
\* update on the whole input leaves, and squeeze then returns the same
\* element and leaves the same engine.
ChunkedUpdateEquivalence ==
    \A whole \in {UpdateOp(spec, Fresh, Inputs(hist))} :
        /\ NumSqueezes(hist) = 0 =>
              state = whole.state /\ absorbing = whole.absorbing
        /\ FirstSqueeze =>
              \A sq \in {SqueezeOp(spec, whole)} :
                  /\ out = sq.result
                  /\ state = sq.state
                  /\ absorbing = sq.absorbing

\* Four elements absorbed in several update calls, the last of them with
\* one element, then squeezed.
ChunkedUpdateWitness ==
    FirstSqueeze /\ Len(arg) = 1 /\ Len(Inputs(hist)) = 2 * RATE

\* C2: on a fresh engine, for an input whose length is no multiple of RATE,
\* update(all) then squeeze returns the reference result: the input padded
\* with one and zeros, absorbed chunk by chunk behind a zero capacity cell.
PaddingDeterminism ==
    (FirstSqueeze /\ arg = Inputs(hist) /\ Len(Inputs(hist)) % RATE # 0) =>
        out = RefResult(spec, RefPad(Inputs(hist)))

PaddingDeterminismWitness ==
    /\ FirstSqueeze /\ arg = Inputs(hist) /\ epochs = 0
    /\ Len(Inputs(hist)) = RATE + 1
    /\ 255 \in {hist[i] : i \in 1..Len(hist)}

\* C3: on a fresh engine, when the input length is a multiple of RATE (zero
\* included), squeeze absorbs the extra chunk [one, zero, ...] and permutes
\* once more: the result is the reference result over the input extended by
\* that chunk, and squeeze has made one permutation.
ExactMultiplePadding ==
    (FirstSqueeze /\ Len(Inputs(hist)) % RATE = 0) =>
        /\ out = RefResult(spec, Inputs(hist) \o ExtraPadding)
        /\ permsS = 1

ExactMultiplePaddingWitness ==
    FirstSqueeze /\ epochs = 0 /\ Len(Inputs(hist)) = RATE /\ permsS = 1

\* C4: reset leaves the default state vector and an empty buffer, and the
\* operations that follow a reset leave the engine, and return the elements,
\* that they do on a freshly constructed engine with the same round counts.
ResetRestoresInitial ==
    /\ lastOp = "reset" => state = DefaultState /\ absorbing = <<>>
    /\ (epochs > 0 /\ Live) =>
          \A fresh \in {RefEngine(spec, hist)} :
              /\ state = fresh.state
              /\ absorbing = fresh.absorbing
              /\ lastOp = "squeeze" => out = Result(fresh.state)

\* A used engine was reset, then absorbed three elements and was squeezed.
ResetRestoresInitialWitness ==
    epochs > 0 /\ FirstSqueeze /\ Len(Inputs(hist)) = RATE + 1

\* C5: squeeze_and_reset returns the element squeeze returns from the same
\* state and leaves the engine as squeeze followed by reset leaves it: the
\* default state vector and an empty buffer.
SqueezeAndResetComposition ==
    [][(lastOp' = "squeeze_and_reset" /\ ~panicked') =>
          \A sq \in {SqueezeOp(spec, self)} :
          \A rs \in {ResetOp(sq)} :
              /\ out' = sq.result
              /\ state' = rs.state /\ absorbing' = rs.absorbing
              /\ state' = DefaultState /\ absorbing' = <<>>]_vars

\* squeeze_and_reset has returned an element that a fresh engine does not
\* return.
SqueezeAndResetWitness ==
    /\ lastOp = "squeeze_and_reset"
    /\ out # SqueezeOp(spec, Fresh).result
    /\ state = DefaultState

\* C6: in update*; squeeze_and_reset, whatever was computed on the engine
\* before, squeeze_and_reset returns what a fresh engine returns for the
\* concatenation of the elements updated since the last reset.
Statelessness ==
    [][(lastOp' = "squeeze_and_reset" /\ ~panicked' /\ NumSqueezes(hist) = 0)
          => out' = RefResult(spec, RefPad(Inputs(hist)))]_vars

\* A second computation has ended on the engine, over a non-empty input.
StatelessnessWitness ==
    /\ lastOp = "squeeze_and_reset"
    /\ epochs = 2
    /\ out # RefResult(spec, RefPad(<<>>))

\* C7: squeeze leaves an empty buffer and the permuted state vector the
\* returned element is read from; it does not restore the default, and the
\* updates and squeezes that follow go on from the retained state.
SqueezeRetainsState ==
    /\ (lastOp = "squeeze" /\ ~panicked) =>
          absorbing = <<>> /\ out = Result(state)
    /\ (NumSqueezes(hist) > 0 /\ ~panicked) =>
          \A retained \in {RefEngine(spec, hist)} :
              state = retained.state /\ absorbing = retained.absorbing

\* A second squeeze, with elements absorbed before and after the first.
SqueezeRetainsStateWitness ==
    /\ lastOp = "squeeze" /\ NumSqueezes(hist) = 2
    /\ hist[1] # SQ /\ hist[Len(hist) - 1] # SQ
    /\ state # DefaultState

\* C8: on a fresh or reset engine, RATE * k elements absorbed in any
\* partition into update calls and then squeezed make k + 1 permute calls:
\* k in the updates and one in squeeze.
PermutationCount ==
    (FirstSqueeze /\ Len(Inputs(hist)) % RATE = 0) =>
        /\ permsU = Len(Inputs(hist)) \div RATE
        /\ permsS = 1
        /\ permsU + permsS = Len(Inputs(hist)) \div RATE + 1

PermutationCountWitness ==
    FirstSqueeze /\ Len(Inputs(hist)) = 2 * RATE /\ Len(arg) = 1 /\ permsU = 2

\* C9: the byte update leaves the engine as update does on the sequence
\* holding, for each byte in order, the field element equal to that byte;
\* distinct bytes give distinct elements, one element per byte.
ByteUpdateIsFieldUpdate ==
    [][lastOp' = "byte_update" =>
          \A e \in {UpdateOp(spec, self, arg')} :
              /\ state' = e.state /\ absorbing' = e.absorbing
              /\ hist' = hist \o arg'
              /\ Cardinality({FromU64(b) : b \in 0..255}) = 256
              /\ \A b \in 0..255 : FromU64(b) = b]_vars

ByteUpdateWitness ==
    lastOp = "byte_update" /\ Len(arg) = RATE + 1 /\ absorbing = <<255>>

\* C10: finalize_into completes without a panic and fills the whole output
\* buffer of OutputSize bytes with the reversed canonical representation of
\* the element squeeze_and_reset returns.
FinalizeFillsOutput ==
    lastOp = "finalize" =>
        /\ ~panicked
        /\ Len(outBuf) = OutputSize
        /\ \A i \in 1..Len(outBuf) :
              outBuf[i] = ToRepr(out, reprLen)[reprLen + 1 - i]

\* C11: default() constructs what new(8, 57) constructs: the round
\* parameters of 8 full and 57 partial rounds, the default state vector and
\* an empty buffer; and the squeeze that follows its updates returns what
\* it returns on the engine of new(8, 57).
DefaultEqualsNew ==
    \A n \in {NewOp(8, 57)} :
        /\ spec = n.spec
        /\ lastOp = "default" => state = n.state /\ absorbing = n.absorbing
        /\ (FirstSqueeze /\ epochs = 0) =>
              out = SqueezeOp(n.spec,
                              UpdateOp(n.spec, Engine(n.state, n.absorbing, 0),
                                       Inputs(hist))).result

\* The engine of default() has absorbed three elements and was squeezed.
DefaultEqualsNewWitness ==
    /\ spec = DefaultOp.spec
    /\ FirstSqueeze /\ epochs = 0
    /\ Len(Inputs(hist)) = RATE + 1

\* C12: in every reachable state the absorption buffer holds fewer than
\* RATE elements, so the buffer with the finishing sign appended holds at
\* most RATE; the assertion at the start of squeeze never fails: nothing
\* but finalize_into on a field whose representation is not OutputSize
\* bytes long ever panics.
BufferBound ==
    /\ Len(absorbing) < RATE
    /\ Len(Append(absorbing, 1)) <= RATE
    /\ panicked => lastOp = "finalize" /\ reprLen # OutputSize

\* A squeeze ran on a buffer of RATE - 1 elements left by an update that
\* permuted once.
BufferBoundWitness ==
    FirstSqueeze /\ permsU = 1 /\ Len(Inputs(hist)) = 2 * RATE - 1

\* The elements an update step passes to update.
UpdateElements == IF lastOp' = "update" THEN arg' ELSE DataInFe(arg')

\* The first n chunks of RATE elements of the sequence all.
FullChunks(all, n) ==
    Vec([j \in 1..n |-> SubSeq(all, (j - 1) * RATE + 1, j * RATE)], n)

\* C13: an update on a buffer b with elements e calls the permutation
\* floor((Len(b) + Len(e)) / RATE) times, absorbs the full chunks of b ++ e
\* in order, each added and permuted before the next, and leaves as buffer
\* the last (Len(b) + Len(e)) mod RATE elements of b ++ e: none when the
\* total is a multiple of RATE, and a short final chunk without permuting.
BufferAndFlushTiming ==
    [][lastOp' \in {"update", "byte_update"} =>
         \A all \in {absorbing \o UpdateElements} :
             /\ permsU' - permsU = Len(all) \div RATE
             /\ state' = RefAbsorb(spec, state,
                                   FullChunks(all, Len(all) \div RATE), 1)
             /\ absorbing' = SubSeq(all, Len(all) - (Len(all) % RATE) + 1,
                                    Len(all))
             /\ Len(all) % RATE = 0 => absorbing' = <<>>
             /\ Len(all) < RATE => state' = state /\ absorbing' = all]_vars

\* An update of RATE elements on a buffer of one element permuted once and
\* left one element.
BufferAndFlushWitness ==
    /\ lastOp = "update" /\ Len(arg) = RATE
    /\ Len(hist) = RATE + 1 /\ NumSqueezes(hist) = 0
    /\ permsU = 1 /\ Len(absorbing) = 1

\* C14: an update with no elements, in field form or in byte form, calls no
\* permutation and leaves the state vector and the buffer as they were,
\* the buffer empty or not.
EmptyUpdateNoOp ==
    [][(lastOp' \in {"update", "byte_update"} /\ arg' = <<>>) =>
         /\ state' = state
         /\ absorbing' = absorbing
         /\ permsU' = permsU /\ permsS' = permsS]_vars

\* An empty byte update ran on a partially filled buffer.
EmptyUpdateWitness ==
    lastOp = "byte_update" /\ arg = <<>> /\ Len(absorbing) = RATE - 1

\* The state vector st with the elements of chunk added into the cells
\* after the first one, cell by cell, and the first cell as it is.
CapacityKept(st, chunk) ==
    <<st[1]>> \o Vec([i \in 1..(T - 1) |-> IF i <= Len(chunk)
                                             THEN (st[i + 1] + chunk[i]) % P
                                             ELSE st[i + 1]], T - 1)

\* The state vector after the chunks from index k on, each added with
\* the first cell kept and then permuted.
RECURSIVE CapacityKeptAbsorb(_, _, _, _)
CapacityKeptAbsorb(sp, st, chunks, k) ==
    IF k > Len(chunks) THEN st
    ELSE CapacityKeptAbsorb(sp, Permute(sp, CapacityKept(st, chunks[k])),
                            chunks, k + 1)

\* C15: the additions of update and of squeeze write the state vector
\* cells 1..RATE only: cell 0 changes with a permutation alone (update and
\* squeeze leave the permutation of a vector whose cell 0 is the one before
\* the additions) or is set back to the default by a reset, and the state
\* vector holds T cells after every operation.
CapacitySlotUntouched ==
    [][/\ Len(state') = T
       /\ lastOp' \in {"update", "byte_update"} =>
             \A all \in {absorbing \o UpdateElements} :
                 /\ Len(all) < RATE => state'[1] = state[1]
                 /\ state' = CapacityKeptAbsorb(
                                 spec, state,
                                 FullChunks(all, Len(all) \div RATE), 1)
       /\ (lastOp' = "squeeze" /\ ~panicked') =>
             state' = Permute(spec, CapacityKept(state, Append(absorbing, 1)))
       /\ lastOp' \in {"reset", "squeeze_and_reset", "finalize"} =>
             state' = DefaultState]_vars

\* An update has permuted a state vector whose cell 0 was not zero: the
\* engine had been squeezed before.
CapacitySlotWitness ==
    /\ lastOp = "update" /\ NumSqueezes(hist) = 1 /\ hist[1] = SQ
    /\ Len(arg) = RATE /\ permsU = 1 /\ out = NoOut

\* The state vector squeeze hands to its permutation: buffer element i in
\* cell i + 1, the multiplicative identity in cell m + 1, m the length of
\* the buffer, and every other cell as it is.
SqueezeAdded(st, buf) ==
    Vec([k \in 1..T |->
           \* k - 1 is the index of the cell, counted from 0
           IF k - 1 >= 1 /\ k - 2 < Len(buf) THEN (st[k] + buf[k - 1]) % P
           ELSE IF k - 1 = Len(buf) + 1 THEN (st[k] + 1) % P
           ELSE st[k]], T)

\* C16: squeeze adds buffer element i into state cell i + 1, the
\* multiplicative identity into cell m + 1, leaves cell 0 and the cells from
\* m + 2 on as they are, then permutes once: no buffered element and no
\* finishing sign is dropped.
SqueezeAbsorptionStep ==
    [][(lastOp' = "squeeze" /\ ~panicked') =>
         /\ state' = Permute(spec, SqueezeAdded(state, absorbing))
         /\ out' = state'[1]
         /\ permsS' = permsS + 1 /\ permsU' = permsU
         /\ absorbing' = <<>>]_vars

\* A squeeze ran on a buffer of one element with RATE = 2: the element is
\* added in cell 1 and the finishing sign in cell 2.
SqueezeAbsorptionWitness ==
    /\ FirstSqueeze /\ T = RATE + 1
    /\ Len(Inputs(hist)) = RATE + 1 /\ hist[RATE + 1] = 1
    /\ permsU = 1 /\ permsS = 1

\* The operations that end by resetting the engine.
Resetting == {"reset", "squeeze_and_reset", "finalize"}

\* C17: the engine is a function of its round counts and of the operations
\* run on it: after every step the state vector and the buffer are those
\* the reference run gives for the round counts and the history since the
\* last reset, every squeeze and squeeze_and_reset returns the element of
\* that run, whatever the engine computed before the reset and whatever
\* else differs between two engines; no operation changes the round counts
\* and update, squeeze, reset and squeeze_and_reset never fail.
Determinism ==
    [][/\ spec' = spec
       /\ lastOp' \in {"update", "byte_update", "squeeze", "reset",
                       "squeeze_and_reset"} => ~panicked'
       /\ ~panicked' =>
             \A e \in {RefEngine(spec, IF lastOp' \in Resetting \ {"reset"}
                                       THEN Append(hist, SQ)
                                       ELSE hist')} :
                 /\ lastOp' \in {"squeeze", "squeeze_and_reset", "finalize"}
                       => out' = Result(e.state)
                 /\ lastOp' \notin Resetting =>
                       state' = e.state /\ absorbing' = e.absorbing
                 /\ lastOp' \in Resetting =>
                       state' = DefaultState /\ absorbing' = <<>>]_vars

\* A reused engine has absorbed elements, been squeezed, absorbed again and
\* been squeezed again.
DeterminismWitness ==
    /\ epochs = 2 /\ lastOp = "squeeze" /\ ~panicked
    /\ NumSqueezes(hist) = 2 /\ Len(Inputs(hist)) = RATE + 1
    /\ hist[Len(hist) - 1] # SQ

\* What the addition loop adds into the cells 1..RATE of the state vector
\* for a chunk: the element of the chunk, or nothing (zero) in a cell the
\* zip does not reach.
Added(chunk) == Tail(AddChunk(Zeros(T), chunk))

\* The blocks update adds for the chunks from index k on: one for each chunk
\* of RATE elements, none for a short chunk.
RECURSIVE UpdateBlocks(_, _)
UpdateBlocks(chunks, k) ==
    IF k > Len(chunks) THEN <<>>
    ELSE IF Len(chunks[k]) < RATE
         THEN UpdateBlocks(chunks, k + 1)
         ELSE <<Added(chunks[k])>> \o UpdateBlocks(chunks, k + 1)

\* The elements update leaves on the absorption line: the short last chunk.
Remainder(chunks) ==
    IF chunks # <<>> /\ Len(chunks[Len(chunks)]) < RATE
    THEN chunks[Len(chunks)]
    ELSE <<>>

\* The block of squeeze, were the finishing sign left out.
SqueezeBlock_NoMarker(ab) == Added(ab)

\* The block squeeze adds for the waiting elements ab.
SqueezeBlock(ab) == Added(Append(ab, 1))

\* The blocks added to the state of a fresh engine by the updates with the
\* input x and the squeeze that follows.
BlocksAbsorbed(x) ==
    UpdateBlocks(Chunks(x, RATE), 1)
        \o <<SqueezeBlock(Remainder(Chunks(x, RATE)))>>

\* The elements the operations of the model pass to update.
Symbols == Elems \cup {FromU64(b) : b \in Bytes}

\* C18: on a fresh engine squeezed once, the state is the one reached by
\* adding and permuting the blocks of RATE elements of its input, and no
\* other input, of another length or with another element, has the same
\* sequence of blocks; in particular not the input with a zero or with a
\* one appended, nor the input without its last element.
PaddingInjective ==
    (FirstSqueeze /\ epochs = 0) =>
        \A x \in {Inputs(hist)} :
        \A bx \in {BlocksAbsorbed(x)} :
            /\ \A j \in 1..Len(bx) : Len(bx[j]) = RATE
            /\ state = RefAbsorb(spec, DefaultState, bx, 1)
            /\ \A y \in SeqsUpTo(Symbols, MaxInputs) :
                  y # x => BlocksAbsorbed(y) # bx
            /\ BlocksAbsorbed(Append(x, 0)) # bx
            /\ BlocksAbsorbed(Append(x, 1)) # bx
            /\ BlocksAbsorbed(x \o Zeros(RATE)) # bx
            /\ x # <<>> => BlocksAbsorbed(SubSeq(x, 1, Len(x) - 1)) # bx

\* A fresh engine absorbed an input that ends with a one and was squeezed:
\* the input without that one has a last block with the same first cell.
PaddingInjectiveWitness ==
    /\ FirstSqueeze /\ epochs = 0
    /\ Len(Inputs(hist)) = RATE /\ hist[RATE] = 1 /\ hist[1] = 0

\* C19: the declared output size is 32 bytes, the length of every output
\* finalize_into has written; the block size returned by block_size() is the
\* capacity of the field in bits times RATE, and the declared BlockSize is
\* that same block size.
NominalSizes ==
    /\ OutputSize = 32
    /\ outBuf # <<>> => Len(outBuf) = 32
    /\ block_size = (NumBits(P) - 1) * RATE
    /\ BlockSize = block_size

====
